---- MODULE Spec2Model ----
(***************************************************************************)
(* Data validation of oca-sdk-rs: data_validator::validate_data (a parsed  *)
(* serde_json::Value) and validator::validate (raw JSON text) check a data *)
(* document against the attributes of an OCA bundle.                       *)
(*                                                                         *)
(* One behaviour of the model is one validation call: Init draws the call's *)
(* inputs (entry point, bundle attributes, data), the actions follow the   *)
(* code of the call statement by statement.                                *)
(***************************************************************************)
EXTENDS Integers, Sequences, FiniteSets, TLC

\* One validation call.
VARIABLES entry, oca, data, d, pc, idx, value, attribute_errors, errors, result

\* The caller of the validation: which call it is making, and what the
\* first one ended with.
VARIABLES call, first

\* lib.rs: the bundles in memory, INFO_CACHE and its mutex, the Arc
\* allocations, and the threads that call info().
VARIABLES bundles, cache, heap, mutex, threads

validation == <<entry, oca, data, d, pc, idx, value, attribute_errors, errors, result>>

session == <<call, first>>

lib == <<bundles, cache, heap, mutex, threads>>

vars == <<validation, session, lib>>

(***************************************************************************)
(* Bounds.                                                                 *)
(***************************************************************************)
\* Largest number of attributes in a bundle.
MaxAttrs == 2

(***************************************************************************)
(* Option<T>.                                                              *)
(***************************************************************************)
None == [some |-> FALSE]

Some(x) == [some |-> TRUE, v |-> x]

(***************************************************************************)
(* serde_json::Value.  A value is its kind t and its JSON text s (for a    *)
(* string, s is the content without the quotes).  The top-level object of  *)
(* a document carries its members in "fields".                             *)
(***************************************************************************)
JString(s) == [t |-> "String", s |-> s]

JNumber(n) == [t |-> "Number", s |-> n]

JBool(b) == [t |-> "Bool", s |-> b]

JNull == [t |-> "Null", s |-> "null"]

JArray(txt) == [t |-> "Array", s |-> txt]

JNested(txt) == [t |-> "Object", s |-> txt]

JObject(fields) == [t |-> "Object", fields |-> fields]

is_object(v) == v.t = "Object"

is_array(v) == v.t = "Array"

is_string(v) == v.t = "String"

is_number(v) == v.t = "Number"

is_boolean(v) == v.t = "Bool"

\* Value::as_str: the content of a JSON string, None for every other kind.
as_str(v) == IF v.t = "String" THEN Some(v.s) ELSE None

\* Display for Value ("{}" in format!): the JSON text, a string in quotes.
Display(v) == IF v.t = "String" THEN "\"" \o v.s \o "\"" ELSE v.s

\* Value::get with a string index: the member of an object, None otherwise.
get(v, key) ==
    IF v.t = "Object" /\ key \in DOMAIN v.fields THEN Some(v.fields[key]) ELSE None

\* Vec<String>::contains.
contains(codes, s) == \E i \in 1..Len(codes) : codes[i] = s

(***************************************************************************)
(* serde_json::from_str.  A text is either malformed, and then it carries  *)
(* the parser's message, or the rendering of a JSON value.                 *)
(***************************************************************************)
Malformed(e) == [wellformed |-> FALSE, error |-> e]

TextOf(v) == [wellformed |-> TRUE, json |-> v]

from_str(text) ==
    IF text.wellformed THEN [tag |-> "Ok", v |-> text.json]
    ELSE [tag |-> "Err", e |-> text.error]

(***************************************************************************)
(* Results.                                                                *)
(***************************************************************************)
NoResult == [tag |-> "None"]

Err(msg) == [tag |-> "Err", msg |-> msg]

\* Ok(DataValidationStatus::Valid)
Valid == [tag |-> "Ok", status |-> "Valid"]

\* Ok(DataValidationStatus::Invalid(errs))
Invalid(errs) == [tag |-> "Ok", status |-> "Invalid", errors |-> errs]

\* Ok(errs) of validator::validate
OkErrors(errs) == [tag |-> "Ok", errors |-> errs]

(***************************************************************************)
(* Error messages.  format!("Attribute \"{}\" value ({}) <what>", name, v) *)
(* is kept as the triple of its holes and its fixed text.                  *)
(***************************************************************************)
MandatoryError(name) ==
    [attribute |-> name, value |-> "", what |-> "value is mandatory"]

ValueError(name, v, what) ==
    [attribute |-> name, value |-> Display(v), what |-> what]

(***************************************************************************)
(* data_validator::validate_attribute, in its three parts: the absent and  *)
(* array/object returns, the type check, the entry-code check.             *)
(***************************************************************************)
\* Mutant: every conformance, not only "M", makes the attribute required.
data_validator_is_required_any(attribute) == attribute.conformance.some

\* let is_required = attribute.conformance == Some("M".to_string());
data_validator_is_required(attribute) == attribute.conformance = Some("M")

\* Mutant: DateTime is checked like Numeric.
data_validator_type_check_datetime_number(attribute, v) ==
    LET ty == attribute.attribute_type
        name == attribute.name
    IN  IF ~ty.some THEN <<>>
        ELSE CASE ty.v.tag = "Value" ->
                    (CASE ty.v.of = "Text" ->
                            IF ~is_string(v)
                            THEN <<ValueError(name, v, "is not a string")>> ELSE <<>>
                       [] ty.v.of \in {"Numeric", "DateTime"} ->
                            IF ~is_number(v)
                            THEN <<ValueError(name, v, "is not a number")>> ELSE <<>>
                       [] ty.v.of = "Boolean" ->
                            IF ~is_boolean(v)
                            THEN <<ValueError(name, v, "is not a boolean")>> ELSE <<>>
                       [] ty.v.of = "Binary" ->
                            IF ~is_string(v)
                            THEN <<ValueError(name, v, "is not a string")>> ELSE <<>>)
               [] ty.v.tag = "Array" ->
                    IF ~is_array(v)
                    THEN <<ValueError(name, v, "is not an array")>> ELSE <<>>
               [] ty.v.tag = "Null" -> <<>>
               [] OTHER -> <<>>

\* The type check: the errors it pushes for the scalar v.
data_validator_type_check(attribute, v) ==
    LET ty == attribute.attribute_type
        name == attribute.name
    IN  IF ~ty.some THEN <<>>
        ELSE CASE ty.v.tag = "Value" ->
                    (CASE ty.v.of = "Text" ->
                            IF ~is_string(v)
                            THEN <<ValueError(name, v, "is not a string")>> ELSE <<>>
                       [] ty.v.of = "Numeric" ->
                            IF ~is_number(v)
                            THEN <<ValueError(name, v, "is not a number")>> ELSE <<>>
                       [] ty.v.of = "DateTime" ->
                            IF ~is_string(v)
                            THEN <<ValueError(name, v, "is not a string")>> ELSE <<>>
                       [] ty.v.of = "Boolean" ->
                            IF ~is_boolean(v)
                            THEN <<ValueError(name, v, "is not a boolean")>> ELSE <<>>
                       [] ty.v.of = "Binary" ->
                            IF ~is_string(v)
                            THEN <<ValueError(name, v, "is not a string")>> ELSE <<>>)
               [] ty.v.tag = "Array" ->
                    IF ~is_array(v)
                    THEN <<ValueError(name, v, "is not an array")>> ELSE <<>>
               [] ty.v.tag = "Null" -> <<>>
               [] OTHER -> <<>>

\* Mutant: only the first code of a flat list is compared.
data_validator_entry_codes_check_first_code(attribute, v) ==
    LET ec == attribute.entry_codes
        name == attribute.name
        push == [panic |-> FALSE,
                 errors |-> <<ValueError(name, v, "is not in entry codes")>>]
        pass == [panic |-> FALSE, errors |-> <<>>]
        unwrap_none == [panic |-> TRUE, errors |-> <<>>]
    IN  IF ~ec.some THEN pass
        ELSE CASE ec.v.tag = "Array" ->
                    IF ~as_str(v).some THEN unwrap_none
                    ELSE IF ~(Len(ec.v.codes) > 0 /\ ec.v.codes[1] = as_str(v).v) THEN push ELSE pass
               [] ec.v.tag = "Object" ->
                    IF Len(ec.v.groups) > 0 /\ ~as_str(v).some THEN unwrap_none
                    ELSE IF ~\E i \in 1..Len(ec.v.groups) :
                                contains(ec.v.groups[i].codes, as_str(v).v)
                         THEN push ELSE pass
               [] OTHER -> pass

\* The entry-code check: it panics (v.as_str().unwrap() on a value that is
\* no string) or pushes at most one error.  For EntryCodes::Array the
\* argument of contains is evaluated first; for EntryCodes::Object the
\* closure of any() runs only when there is a group.
data_validator_entry_codes_check(attribute, v) ==
    LET ec == attribute.entry_codes
        name == attribute.name
        push == [panic |-> FALSE,
                 errors |-> <<ValueError(name, v, "is not in entry codes")>>]
        pass == [panic |-> FALSE, errors |-> <<>>]
        unwrap_none == [panic |-> TRUE, errors |-> <<>>]
    IN  IF ~ec.some THEN pass
        ELSE CASE ec.v.tag = "Array" ->
                    IF ~as_str(v).some THEN unwrap_none
                    ELSE IF ~contains(ec.v.codes, as_str(v).v) THEN push ELSE pass
               [] ec.v.tag = "Object" ->
                    IF Len(ec.v.groups) > 0 /\ ~as_str(v).some THEN unwrap_none
                    ELSE IF ~\E i \in 1..Len(ec.v.groups) :
                                contains(ec.v.groups[i].codes, as_str(v).v)
                         THEN push ELSE pass
               [] OTHER -> pass

\* Mutant: only arrays, not objects, return early.
data_validator_validate_attribute_value_arrays_only ==
    /\ entry = "validate_data"
    /\ pc = "value"
    /\ IF ~value.some
       THEN /\ attribute_errors' =
                    IF data_validator_is_required(oca[idx])
                    THEN <<MandatoryError(oca[idx].name)>> ELSE <<>>
            /\ pc' = "extend"
       ELSE IF is_array(value.v)
            THEN /\ attribute_errors' = <<>>
                 /\ pc' = "extend"
            ELSE /\ attribute_errors' = <<>>
                 /\ pc' = "type"
    /\ UNCHANGED <<entry, oca, data, d, idx, value, errors, result>>
    /\ UNCHANGED <<session, lib>>

\* let v = match value { .. }; if v.is_array() || v.is_object() { return }
data_validator_validate_attribute_value ==
    /\ entry = "validate_data"
    /\ pc = "value"
    /\ IF ~value.some
       THEN /\ attribute_errors' =
                    IF data_validator_is_required(oca[idx])
                    THEN <<MandatoryError(oca[idx].name)>> ELSE <<>>
            /\ pc' = "extend"
       ELSE IF is_array(value.v) \/ is_object(value.v)
            THEN /\ attribute_errors' = <<>>
                 /\ pc' = "extend"
            ELSE /\ attribute_errors' = <<>>
                 /\ pc' = "type"
    /\ UNCHANGED <<entry, oca, data, d, idx, value, errors, result>>
    /\ UNCHANGED <<session, lib>>

\* if let Some(nested_attribute_type) = &attribute.attribute_type { .. }
data_validator_validate_attribute_type ==
    /\ entry = "validate_data"
    /\ pc = "type"
    /\ attribute_errors' =
            attribute_errors \o data_validator_type_check(oca[idx], value.v)
    /\ pc' = "entry_codes"
    /\ UNCHANGED <<entry, oca, data, d, idx, value, errors, result>>
    /\ UNCHANGED <<session, lib>>

\* if let Some(entry_codes) = &attribute.entry_codes { .. }  Ok(errors)
data_validator_validate_attribute_entry_codes ==
    /\ entry = "validate_data"
    /\ pc = "entry_codes"
    /\ LET r == data_validator_entry_codes_check(oca[idx], value.v)
       IN  IF r.panic
           THEN /\ pc' = "panicked"
                /\ UNCHANGED attribute_errors
           ELSE /\ pc' = "extend"
                /\ attribute_errors' = attribute_errors \o r.errors
    /\ UNCHANGED <<entry, oca, data, d, idx, value, errors, result>>
    /\ UNCHANGED <<session, lib>>

(***************************************************************************)
(* data_validator::validate_data.                                          *)
(***************************************************************************)
\* Mutant: the is_object test of validate_data is left out.
validate_data_is_object_unchecked ==
    /\ entry = "validate_data"
    /\ pc = "start"
    /\ pc' = "for"
    /\ UNCHANGED <<entry, oca, data, d, idx, value, attribute_errors, errors, result>>
    /\ UNCHANGED <<session, lib>>

\* if !data.is_object() { return Err("Data is not an object") }
validate_data_is_object ==
    /\ entry = "validate_data"
    /\ pc = "start"
    /\ IF ~is_object(data)
       THEN /\ result' = Err("Data is not an object")
            /\ pc' = "done"
       ELSE /\ pc' = "for"
            /\ UNCHANGED result
    /\ UNCHANGED <<entry, oca, data, d, idx, value, attribute_errors, errors>>
    /\ UNCHANGED <<session, lib>>

\* for attr in oca_box.attributes.values() { let value = data.get(attr.name) ..
validate_data_for ==
    /\ entry = "validate_data"
    /\ pc = "for"
    /\ idx <= Len(oca)
    /\ value' = get(data, oca[idx].name)
    /\ attribute_errors' = <<>>
    /\ pc' = "value"
    /\ UNCHANGED <<entry, oca, data, d, idx, errors, result>>
    /\ UNCHANGED <<session, lib>>

\* Mutant: the errors of an attribute replace the errors collected so far.
validate_data_extend_overwrite ==
    /\ entry = "validate_data"
    /\ pc = "extend"
    /\ errors' = attribute_errors
    /\ idx' = idx + 1
    /\ pc' = "for"
    /\ UNCHANGED <<entry, oca, data, d, value, attribute_errors, result>>
    /\ UNCHANGED <<session, lib>>

\* let attribute_errors = validate_attribute(attr, value)?;
\* if !attribute_errors.is_empty() { errors.extend(attribute_errors) }
validate_data_extend ==
    /\ entry = "validate_data"
    /\ pc = "extend"
    /\ errors' = IF attribute_errors # <<>> THEN errors \o attribute_errors ELSE errors
    /\ idx' = idx + 1
    /\ pc' = "for"
    /\ UNCHANGED <<entry, oca, data, d, value, attribute_errors, result>>
    /\ UNCHANGED <<session, lib>>

\* Mutant: the errors are always wrapped in Invalid.
validate_data_return_always_invalid ==
    /\ entry = "validate_data"
    /\ pc = "for"
    /\ idx > Len(oca)
    /\ result' = Invalid(errors)
    /\ pc' = "done"
    /\ UNCHANGED <<entry, oca, data, d, idx, value, attribute_errors, errors>>
    /\ UNCHANGED <<session, lib>>

\* if errors.is_empty() { Ok(Valid) } else { Ok(Invalid(errors)) }
validate_data_return ==
    /\ entry = "validate_data"
    /\ pc = "for"
    /\ idx > Len(oca)
    /\ result' = IF errors = <<>> THEN Valid ELSE Invalid(errors)
    /\ pc' = "done"
    /\ UNCHANGED <<entry, oca, data, d, idx, value, attribute_errors, errors>>
    /\ UNCHANGED <<session, lib>>

(***************************************************************************)
(* validator::validate_attribute: the same three parts, in the copy of the *)
(* function that validator/mod.rs keeps.                                   *)
(***************************************************************************)
\* Mutant: every conformance, not only "M", makes the attribute required.
validator_is_required_any(attribute) == attribute.conformance.some

\* let is_required = attribute.conformance == Some("M".to_string());
validator_is_required(attribute) == attribute.conformance = Some("M")

\* Mutant: the array branch of the type check pushes nothing.
validator_type_check_array_silent(attribute, v) ==
    LET ty == attribute.attribute_type
        name == attribute.name
    IN  IF ~ty.some THEN <<>>
        ELSE CASE ty.v.tag = "Value" ->
                    (CASE ty.v.of = "Text" ->
                            IF ~is_string(v)
                            THEN <<ValueError(name, v, "is not a string")>> ELSE <<>>
                       [] ty.v.of = "Numeric" ->
                            IF ~is_number(v)
                            THEN <<ValueError(name, v, "is not a number")>> ELSE <<>>
                       [] ty.v.of = "DateTime" ->
                            IF ~is_string(v)
                            THEN <<ValueError(name, v, "is not a string")>> ELSE <<>>
                       [] ty.v.of = "Boolean" ->
                            IF ~is_boolean(v)
                            THEN <<ValueError(name, v, "is not a boolean")>> ELSE <<>>
                       [] ty.v.of = "Binary" ->
                            IF ~is_string(v)
                            THEN <<ValueError(name, v, "is not a string")>> ELSE <<>>)
               [] ty.v.tag = "Array" ->
                    <<>>
               [] ty.v.tag = "Null" -> <<>>
               [] OTHER -> <<>>

\* The type check: the errors it pushes for the scalar v.
validator_type_check(attribute, v) ==
    LET ty == attribute.attribute_type
        name == attribute.name
    IN  IF ~ty.some THEN <<>>
        ELSE CASE ty.v.tag = "Value" ->
                    (CASE ty.v.of = "Text" ->
                            IF ~is_string(v)
                            THEN <<ValueError(name, v, "is not a string")>> ELSE <<>>
                       [] ty.v.of = "Numeric" ->
                            IF ~is_number(v)
                            THEN <<ValueError(name, v, "is not a number")>> ELSE <<>>
                       [] ty.v.of = "DateTime" ->
                            IF ~is_string(v)
                            THEN <<ValueError(name, v, "is not a string")>> ELSE <<>>
                       [] ty.v.of = "Boolean" ->
                            IF ~is_boolean(v)
                            THEN <<ValueError(name, v, "is not a boolean")>> ELSE <<>>
                       [] ty.v.of = "Binary" ->
                            IF ~is_string(v)
                            THEN <<ValueError(name, v, "is not a string")>> ELSE <<>>)
               [] ty.v.tag = "Array" ->
                    IF ~is_array(v)
                    THEN <<ValueError(name, v, "is not an array")>> ELSE <<>>
               [] ty.v.tag = "Null" -> <<>>
               [] OTHER -> <<>>

\* Mutant: only the first group of a grouped mapping is searched.
validator_entry_codes_check_first_group(attribute, v) ==
    LET ec == attribute.entry_codes
        name == attribute.name
        push == [panic |-> FALSE,
                 errors |-> <<ValueError(name, v, "is not in entry codes")>>]
        pass == [panic |-> FALSE, errors |-> <<>>]
        unwrap_none == [panic |-> TRUE, errors |-> <<>>]
    IN  IF ~ec.some THEN pass
        ELSE CASE ec.v.tag = "Array" ->
                    IF ~as_str(v).some THEN unwrap_none
                    ELSE IF ~contains(ec.v.codes, as_str(v).v) THEN push ELSE pass
               [] ec.v.tag = "Object" ->
                    IF Len(ec.v.groups) > 0 /\ ~as_str(v).some THEN unwrap_none
                    ELSE IF ~\E i \in 1..(IF Len(ec.v.groups) > 0 THEN 1 ELSE 0) :
                                contains(ec.v.groups[i].codes, as_str(v).v)
                         THEN push ELSE pass
               [] OTHER -> pass

\* The entry-code check: it panics (v.as_str().unwrap() on a value that is
\* no string) or pushes at most one error.  For EntryCodes::Array the
\* argument of contains is evaluated first; for EntryCodes::Object the
\* closure of any() runs only when there is a group.
validator_entry_codes_check(attribute, v) ==
    LET ec == attribute.entry_codes
        name == attribute.name
        push == [panic |-> FALSE,
                 errors |-> <<ValueError(name, v, "is not in entry codes")>>]
        pass == [panic |-> FALSE, errors |-> <<>>]
        unwrap_none == [panic |-> TRUE, errors |-> <<>>]
    IN  IF ~ec.some THEN pass
        ELSE CASE ec.v.tag = "Array" ->
                    IF ~as_str(v).some THEN unwrap_none
                    ELSE IF ~contains(ec.v.codes, as_str(v).v) THEN push ELSE pass
               [] ec.v.tag = "Object" ->
                    IF Len(ec.v.groups) > 0 /\ ~as_str(v).some THEN unwrap_none
                    ELSE IF ~\E i \in 1..Len(ec.v.groups) :
                                contains(ec.v.groups[i].codes, as_str(v).v)
                         THEN push ELSE pass
               [] OTHER -> pass

\* let v = match value { .. }; if v.is_array() || v.is_object() { return }
validator_validate_attribute_value ==
    /\ entry = "validate"
    /\ pc = "value"
    /\ IF ~value.some
       THEN /\ attribute_errors' =
                    IF validator_is_required(oca[idx])
                    THEN <<MandatoryError(oca[idx].name)>> ELSE <<>>
            /\ pc' = "extend"
       ELSE IF is_array(value.v) \/ is_object(value.v)
            THEN /\ attribute_errors' = <<>>
                 /\ pc' = "extend"
            ELSE /\ attribute_errors' = <<>>
                 /\ pc' = "type"
    /\ UNCHANGED <<entry, oca, data, d, idx, value, errors, result>>
    /\ UNCHANGED <<session, lib>>

\* if let Some(nested_attribute_type) = &attribute.attribute_type { .. }
validator_validate_attribute_type ==
    /\ entry = "validate"
    /\ pc = "type"
    /\ attribute_errors' =
            attribute_errors \o validator_type_check(oca[idx], value.v)
    /\ pc' = "entry_codes"
    /\ UNCHANGED <<entry, oca, data, d, idx, value, errors, result>>
    /\ UNCHANGED <<session, lib>>

\* if let Some(entry_codes) = &attribute.entry_codes { .. }  Ok(errors)
validator_validate_attribute_entry_codes ==
    /\ entry = "validate"
    /\ pc = "entry_codes"
    /\ LET r == validator_entry_codes_check(oca[idx], value.v)
       IN  IF r.panic
           THEN /\ pc' = "panicked"
                /\ UNCHANGED attribute_errors
           ELSE /\ pc' = "extend"
                /\ attribute_errors' = attribute_errors \o r.errors
    /\ UNCHANGED <<entry, oca, data, d, idx, value, errors, result>>
    /\ UNCHANGED <<session, lib>>

(***************************************************************************)
(* validator::validate.                                                    *)
(***************************************************************************)
\* Mutant: a parse failure is reported with the message of the is_object test.
validate_from_str_same_error ==
    /\ entry = "validate"
    /\ pc = "start"
    /\ LET r == from_str(data)
       IN  IF r.tag = "Err"
           THEN /\ result' = Err("Data is not an object")
                /\ pc' = "done"
                /\ UNCHANGED d
           ELSE /\ d' = Some(r.v)
                /\ pc' = "parsed"
                /\ UNCHANGED result
    /\ UNCHANGED <<entry, oca, data, idx, value, attribute_errors, errors>>
    /\ UNCHANGED <<session, lib>>

\* let d = match serde_json::from_str(data) { Ok(d) => d, Err(e) => return Err(..) }
validate_from_str ==
    /\ entry = "validate"
    /\ pc = "start"
    /\ LET r == from_str(data)
       IN  IF r.tag = "Err"
           THEN /\ result' = Err("Failed to parse data: " \o r.e)
                /\ pc' = "done"
                /\ UNCHANGED d
           ELSE /\ d' = Some(r.v)
                /\ pc' = "parsed"
                /\ UNCHANGED result
    /\ UNCHANGED <<entry, oca, data, idx, value, attribute_errors, errors>>
    /\ UNCHANGED <<session, lib>>

\* if !d.is_object() { return Err("Data is not an object") }
validate_is_object ==
    /\ entry = "validate"
    /\ pc = "parsed"
    /\ IF ~is_object(d.v)
       THEN /\ result' = Err("Data is not an object")
            /\ pc' = "done"
       ELSE /\ pc' = "for"
            /\ UNCHANGED result
    /\ UNCHANGED <<entry, oca, data, d, idx, value, attribute_errors, errors>>
    /\ UNCHANGED <<session, lib>>

\* oca_box.attributes.values().for_each(|attr| { let value = d.get(attr.name) ..
validate_for_each ==
    /\ entry = "validate"
    /\ pc = "for"
    /\ idx <= Len(oca)
    /\ value' = get(d.v, oca[idx].name)
    /\ attribute_errors' = <<>>
    /\ pc' = "value"
    /\ UNCHANGED <<entry, oca, data, d, idx, errors, result>>
    /\ UNCHANGED <<session, lib>>

\* let attribute_errors = validate_attribute(attr, value).unwrap();
\* if !attribute_errors.is_empty() { errors.extend(attribute_errors) }
validate_extend ==
    /\ entry = "validate"
    /\ pc = "extend"
    /\ errors' = IF attribute_errors # <<>> THEN errors \o attribute_errors ELSE errors
    /\ idx' = idx + 1
    /\ pc' = "for"
    /\ UNCHANGED <<entry, oca, data, d, value, attribute_errors, result>>
    /\ UNCHANGED <<session, lib>>

\* Ok(errors)
validate_return ==
    /\ entry = "validate"
    /\ pc = "for"
    /\ idx > Len(oca)
    /\ result' = OkErrors(errors)
    /\ pc' = "done"
    /\ UNCHANGED <<entry, oca, data, d, idx, value, attribute_errors, errors>>
    /\ UNCHANGED <<session, lib>>

(***************************************************************************)
(* The inputs of a call.                                                   *)
(***************************************************************************)
\* NestedAttrType
TypeValue(k) == [tag |-> "Value", of |-> k]

TypeArray(k) == [tag |-> "Array", of |-> k]

TypeNull == [tag |-> "Null"]

TypeReference(said) == [tag |-> "Reference", of |-> said]

\* AttributeType
ScalarKinds == {"Text", "Numeric", "DateTime", "Boolean", "Binary"}

\* EntryCodes
EntryCodesSai(said) == [tag |-> "Sai", said |-> said]

EntryCodesArray(codes) == [tag |-> "Array", codes |-> codes]

EntryCodesObject(groups) == [tag |-> "Object", groups |-> groups]

Group(name, codes) == [name |-> name, codes |-> codes]

\* The names of the attributes of a bundle, in the order oca_box.attributes
\* iterates them; ExtraKey is a member of the data that no attribute names.
AttrNames == <<"num", "radio3", "img", "i">>

ExtraKey == "unlisted"

AttributeTypes ==
    {None} \cup {Some(TypeValue(k)) : k \in ScalarKinds}
           \cup {Some(TypeArray("Text")), Some(TypeNull),
                 Some(TypeReference("refs:EPx6U76rCHy"))}

Conformances == {None, Some("M"), Some("O"), Some("m")}

EntryCodesOptions ==
    {None,
     Some(EntryCodesArray(<<>>)),
     Some(EntryCodesArray(<<"a", "b">>)),
     Some(EntryCodesObject(<<>>)),
     Some(EntryCodesObject(<<Group("g1", <<>>)>>)),
     Some(EntryCodesObject(<<Group("g1", <<"a", "b">>), Group("g2", <<"c">>)>>)),
     Some(EntryCodesSai("EJeWVGxkqxWrdGi0efOzwg1YQK8FrA"))}

ScalarValues ==
    {JString("b"), JString("c"), JString("d"), JNumber("42"), JBool("true"), JNull}

CompositeValues == {JArray("[1,2,3]"), JNested("{\"k\":1}")}

\* A field is an attribute of the bundle (without its name) together with
\* the value the data has for it, if any.
AllFields ==
    [attribute_type : AttributeTypes, conformance : Conformances,
     entry_codes : EntryCodesOptions,
     value : {None} \cup {Some(v) : v \in ScalarValues \cup CompositeValues}]

\* The fields of the bundles with more than one attribute.
CoreFields ==
    [attribute_type : {Some(TypeValue("Text")), Some(TypeValue("Numeric"))},
     conformance : {None, Some("M")},
     entry_codes : {None, Some(EntryCodesArray(<<"a", "b">>))},
     value : {None, Some(JString("b")), Some(JString("d")), Some(JNumber("42")),
              Some(JArray("[1,2,3]"))}]

FieldSeqs ==
    {<<>>} \cup {<<f>> : f \in AllFields}
           \cup UNION {[1..n -> CoreFields] : n \in 2..MaxAttrs}

\* oca_box.attributes.values() of the bundle with these fields.
SchemaOf(fs) ==
    [i \in 1..Len(fs) |->
        [name |-> AttrNames[i], attribute_type |-> fs[i].attribute_type,
         conformance |-> fs[i].conformance, entry_codes |-> fs[i].entry_codes]]

\* The JSON object that has the values of these fields.
DataOf(fs, extra) ==
    LET present == {i \in 1..Len(fs) : fs[i].value.some}
        keys == {AttrNames[i] : i \in present} \cup (IF extra THEN {ExtraKey} ELSE {})
    IN  JObject([k \in keys |->
            IF k = ExtraKey THEN JString("o1")
            ELSE fs[CHOOSE i \in present : AttrNames[i] = k].value.v])

NonObjects == {JArray("[1,2,3]"), JString("a"), JNumber("42"), JBool("true"), JNull}

Documents(fs) ==
    {DataOf(fs, extra) : extra \in (IF Len(fs) <= 1 THEN BOOLEAN ELSE {FALSE})}
        \cup NonObjects

Texts(fs) ==
    {TextOf(v) : v \in Documents(fs)}
        \cup {Malformed("EOF while parsing an object at line 1 column 1"),
              Malformed("expected value at line 1 column 1")}

(***************************************************************************)
(* lib.rs: OCABundleInfo::new.  Of a bundle the model keeps what new()     *)
(* reads: the attributes and the meta of OCABox::from(bundle), and the     *)
(* overlays.                                                               *)
(***************************************************************************)
\* Language::to_639_3
to_639_3(language) == IF language = "Eng" THEN "eng" ELSE "pol"

Overlay(type, said) == [type |-> type, said |-> said]

\* overlays.iter_mut().filter(|o| o.as_any().downcast_ref::<T>().is_some())
\*     .map(|o| o.as_any().downcast_ref::<T>().unwrap().to_owned()).collect()
downcast_all(overlays, type) ==
    LET isType(o) == o.type = type IN SelectSeq(overlays, isType)

OCABundleInfo_new(bundle) ==
    [attributes |-> bundle.attributes,
     meta |-> IF bundle.meta.some
              THEN {<<to_639_3(l), bundle.meta.v[l]>> : l \in DOMAIN bundle.meta.v}
              ELSE {},
     links |-> downcast_all(bundle.overlays, "Link"),
     framings |-> downcast_all(bundle.overlays, "AttributeFraming")]

\* The bundles of the model.
EntranceCredential ==
    [attributes |-> {"d", "i", "passed"},
     meta |-> Some([Eng |-> "Entrance credential", Pol |-> "Kredenszjal wejsciowy"]),
     overlays |-> <<Overlay("Meta", "EOx"), Overlay("Link", "EJe"),
                    Overlay("AttributeFraming", "EPG"), Overlay("Link", "EFz")>>]

PlainBundle ==
    [attributes |-> {"name"}, meta |-> None, overlays |-> <<Overlay("Conformance", "ELe")>>]

Bundles == {EntranceCredential, PlainBundle}

\* self as *const OCABundle as usize
Addresses == {"x", "y"}

Threads == {"t1", "t2"}

\* Arc allocations made in a behaviour, and Arcs a caller keeps of one.
MaxInfos == 3

MaxHeld == 1

\* Arc::strong_count: the Arcs the callers keep and those info() holds in
\* a local (info, new_info) or is returning.
strong_count(id) ==
    heap[id].held
        + Cardinality({t \in Threads :
                          threads[t].local = id /\ threads[t].pc \in {"insert", "returned"}})

IdleThread == [pc |-> "idle", self |-> "x", local |-> 0]

\* self is borrowed while a call of info() on it runs.
Borrowed(a) == \E t \in Threads : threads[t].pc # "idle" /\ threads[t].self = a

(***************************************************************************)
(* lib.rs: info() of WithInfo for OCABundle.                               *)
(***************************************************************************)
\* Mutant: the lock does not exclude a second thread.
info_lock_shared(t, a) ==
    /\ threads[t].pc = "idle"
    /\ bundles[a].some
    /\ mutex' = t
    /\ threads' = [threads EXCEPT ![t] = [pc |-> "lookup", self |-> a, local |-> 0]]
    /\ UNCHANGED <<bundles, cache, heap>>
    /\ UNCHANGED <<validation, session>>

\* let key = self as *const OCABundle as usize;
\* let mut cache = INFO_CACHE.lock().unwrap();
info_lock(t, a) ==
    /\ threads[t].pc = "idle"
    /\ bundles[a].some
    /\ mutex = "free"
    /\ mutex' = t
    /\ threads' = [threads EXCEPT ![t] = [pc |-> "lookup", self |-> a, local |-> 0]]
    /\ UNCHANGED <<bundles, cache, heap>>
    /\ UNCHANGED <<validation, session>>

\* if let Some(weak_info) = cache.get(&key) {
\*     if let Some(info) = weak_info.upgrade() { return info; } }
info_lookup(t) ==
    /\ threads[t].pc = "lookup"
    /\ LET id == cache[threads[t].self]
       IN  IF id # 0 /\ strong_count(id) > 0
           THEN /\ threads' = [threads EXCEPT ![t].pc = "returned", ![t].local = id]
                /\ mutex' = "free"
           ELSE /\ threads' = [threads EXCEPT ![t].pc = "new"]
                /\ UNCHANGED mutex
    /\ UNCHANGED <<bundles, cache, heap>>
    /\ UNCHANGED <<validation, session>>

\* let new_info = Arc::new(OCABundleInfo::new(self));
info_new(t) ==
    /\ threads[t].pc = "new"
    /\ Len(heap) < MaxInfos
    /\ heap' = Append(heap, [info |-> OCABundleInfo_new(bundles[threads[t].self].v),
                             key |-> threads[t].self, held |-> 0])
    /\ threads' = [threads EXCEPT ![t].pc = "insert", ![t].local = Len(heap) + 1]
    /\ UNCHANGED <<bundles, cache, mutex>>
    /\ UNCHANGED <<validation, session>>

\* cache.insert(key, Arc::downgrade(&new_info)); new_info
info_insert(t) ==
    /\ threads[t].pc = "insert"
    /\ cache' = [cache EXCEPT ![threads[t].self] = threads[t].local]
    /\ threads' = [threads EXCEPT ![t].pc = "returned"]
    /\ mutex' = "free"
    /\ UNCHANGED <<bundles, heap>>
    /\ UNCHANGED <<validation, session>>

(***************************************************************************)
(* The callers of info(): they keep or drop the Arc they got, drop an Arc  *)
(* they kept, and create, move and drop bundles.                           *)
(***************************************************************************)
arc_keep(t) ==
    /\ threads[t].pc = "returned"
    /\ heap[threads[t].local].held < MaxHeld
    /\ heap' = [heap EXCEPT ![threads[t].local].held = @ + 1]
    /\ threads' = [threads EXCEPT ![t] = IdleThread]
    /\ UNCHANGED <<bundles, cache, mutex>>
    /\ UNCHANGED <<validation, session>>

arc_drop_returned(t) ==
    /\ threads[t].pc = "returned"
    /\ threads' = [threads EXCEPT ![t] = IdleThread]
    /\ UNCHANGED <<bundles, cache, heap, mutex>>
    /\ UNCHANGED <<validation, session>>

arc_drop(id) ==
    /\ id \in 1..Len(heap)
    /\ heap[id].held > 0
    /\ heap' = [heap EXCEPT ![id].held = @ - 1]
    /\ UNCHANGED <<bundles, cache, mutex, threads>>
    /\ UNCHANGED <<validation, session>>

bundle_create(a, b) ==
    /\ ~bundles[a].some
    /\ bundles' = [bundles EXCEPT ![a] = Some(b)]
    /\ UNCHANGED <<cache, heap, mutex, threads>>
    /\ UNCHANGED <<validation, session>>

bundle_move(a, to) ==
    /\ bundles[a].some
    /\ ~bundles[to].some
    /\ ~Borrowed(a)
    /\ bundles' = [bundles EXCEPT ![a] = None, ![to] = bundles[a]]
    /\ UNCHANGED <<cache, heap, mutex, threads>>
    /\ UNCHANGED <<validation, session>>

bundle_drop(a) ==
    /\ bundles[a].some
    /\ ~Borrowed(a)
    /\ bundles' = [bundles EXCEPT ![a] = None]
    /\ UNCHANGED <<cache, heap, mutex, threads>>
    /\ UNCHANGED <<validation, session>>

\* Nothing of lib.rs is in use.
LibIdle ==
    /\ bundles = [a \in Addresses |-> None]
    /\ cache = [a \in Addresses |-> 0]
    /\ heap = <<>>
    /\ mutex = "free"
    /\ threads = [t \in Threads |-> IdleThread]

\* No validation call is made.
ValidationIdle ==
    /\ entry = "none"
    /\ oca = <<>>
    /\ data = JNull
    /\ d = None
    /\ pc = "idle"
    /\ idx = 1
    /\ value = None
    /\ attribute_errors = <<>>
    /\ errors = <<>>
    /\ result = NoResult

NoOutcome == [entry |-> "none"]

FirstCall == call = 1 /\ first = NoOutcome

(***************************************************************************)
(* The specification.                                                      *)
(***************************************************************************)
Init ==
    /\ \E fs \in FieldSeqs :
          /\ oca = SchemaOf(fs)
          /\ \/ entry = "validate_data" /\ data \in Documents(fs)
             \/ entry = "validate" /\ data \in Texts(fs)
    /\ d = None
    /\ pc = "start"
    /\ idx = 1
    /\ value = None
    /\ attribute_errors = <<>>
    /\ errors = <<>>
    /\ result = NoResult
    /\ FirstCall
    /\ LibIdle

Next ==
    \/ validate_data_is_object
    \/ validate_data_for
    \/ data_validator_validate_attribute_value
    \/ data_validator_validate_attribute_type
    \/ data_validator_validate_attribute_entry_codes
    \/ validate_data_extend
    \/ validate_data_return
    \/ validate_from_str
    \/ validate_is_object
    \/ validate_for_each
    \/ validator_validate_attribute_value
    \/ validator_validate_attribute_type
    \/ validator_validate_attribute_entry_codes
    \/ validate_extend
    \/ validate_return

Spec == Init /\ [][Next]_vars

(***************************************************************************)
(* Two calls with the same bundle and the same data.  Each call builds its *)
(* own OCABox, whose attributes are a std HashMap<String, Attribute>       *)
(* (lib.rs keeps oca_box.attributes in a field of that type): values()     *)
(* iterates a new map in an order of its own.                              *)
(***************************************************************************)
\* The orders in which a HashMap of these attributes may iterate.
Orders(attributes) ==
    {[i \in 1..Len(attributes) |-> attributes[p[i]]] :
        p \in Permutations(1..Len(attributes))}

\* The caller calls the same entry point again, with the same arguments.
call_again ==
    /\ call = 1
    /\ pc \in {"done", "panicked"}
    /\ first' = [entry |-> entry, pc |-> pc, result |-> result]
    /\ call' = 2
    /\ oca' \in Orders(oca)
    /\ d' = None
    /\ pc' = "start"
    /\ idx' = 1
    /\ value' = None
    /\ attribute_errors' = <<>>
    /\ errors' = <<>>
    /\ result' = NoResult
    /\ UNCHANGED <<entry, data>>
    /\ UNCHANGED lib

\* The caller calls the other entry point with the same bundle: validate
\* with a text that parses to the value, validate_data with the value the
\* text parses to.
call_other_entry ==
    /\ call = 1
    /\ pc \in {"done", "panicked"}
    /\ entry = "validate" => data.wellformed
    /\ first' = [entry |-> entry, pc |-> pc, result |-> result]
    /\ call' = 2
    /\ entry' = IF entry = "validate_data" THEN "validate" ELSE "validate_data"
    /\ data' = IF entry = "validate_data" THEN TextOf(data) ELSE data.json
    /\ oca' \in Orders(oca)
    /\ d' = None
    /\ pc' = "start"
    /\ idx' = 1
    /\ value' = None
    /\ attribute_errors' = <<>>
    /\ errors' = <<>>
    /\ result' = NoResult
    /\ UNCHANGED lib

\* The fields of the bundles with more than one attribute that are
\* validated twice.
PairFields ==
    [attribute_type : {Some(TypeValue("Text")), Some(TypeValue("Numeric"))},
     conformance : {Some("M")},
     entry_codes : {None, Some(EntryCodesArray(<<"a", "b">>))},
     value : {None, Some(JString("b")), Some(JString("d")), Some(JNumber("42"))}]

PairFieldSeqs ==
    {<<>>} \cup {<<f>> : f \in AllFields}
           \cup UNION {[1..n -> PairFields] : n \in 2..MaxAttrs}

InitTwice ==
    /\ \E fs \in PairFieldSeqs :
          /\ oca = SchemaOf(fs)
          /\ \/ entry = "validate_data" /\ data \in Documents(fs)
             \/ entry = "validate" /\ data \in Texts(fs)
    /\ d = None
    /\ pc = "start"
    /\ idx = 1
    /\ value = None
    /\ attribute_errors = <<>>
    /\ errors = <<>>
    /\ result = NoResult
    /\ FirstCall
    /\ LibIdle

NextTwice ==
    \/ validate_data_is_object
    \/ validate_data_for
    \/ data_validator_validate_attribute_value
    \/ data_validator_validate_attribute_type
    \/ data_validator_validate_attribute_entry_codes
    \/ validate_data_extend
    \/ validate_data_return
    \/ validate_from_str
    \/ validate_is_object
    \/ validate_for_each
    \/ validator_validate_attribute_value
    \/ validator_validate_attribute_type
    \/ validator_validate_attribute_entry_codes
    \/ validate_extend
    \/ validate_return
    \/ call_again
    \/ call_other_entry

SpecTwice == InitTwice /\ [][NextTwice]_vars

(***************************************************************************)
(* The specification of lib.rs: threads call info() on the bundles in      *)
(* memory while bundles are created, moved and dropped.                    *)
(***************************************************************************)
InitInfo ==
    /\ ValidationIdle
    /\ FirstCall
    /\ LibIdle

NextInfo ==
    \/ \E t \in Threads, a \in Addresses : info_lock(t, a)
    \/ \E t \in Threads : info_lookup(t)
    \/ \E t \in Threads : info_new(t)
    \/ \E t \in Threads : info_insert(t)
    \/ \E t \in Threads : arc_keep(t)
    \/ \E t \in Threads : arc_drop_returned(t)
    \/ \E id \in 1..MaxInfos : arc_drop(id)
    \/ \E a \in Addresses, b \in Bundles : bundle_create(a, b)
    \/ \E a \in Addresses, to \in Addresses : bundle_move(a, to)
    \/ \E a \in Addresses : bundle_drop(a)

SpecInfo == InitInfo /\ [][NextInfo]_vars

(***************************************************************************)
(* What the properties speak about: the document of the call, the value it *)
(* has for the i-th attribute, and the errors reported for that attribute  *)
(* once validate_attribute has returned for it.                            *)
(***************************************************************************)
\* The call was given a JSON value (not a text that fails to parse).
HasDocument == entry = "validate_data" \/ data.wellformed

Document == IF entry = "validate_data" THEN data ELSE data.json

ObjectDocument == HasDocument /\ Document.t = "Object"

Attrs == 1..Len(oca)

IsPresent(i) == oca[i].name \in DOMAIN Document.fields

ValueOf(i) == Document.fields[oca[i].name]

IsScalar(v) == v.t \in {"String", "Number", "Bool", "Null"}

\* validate_attribute has returned for the i-th attribute.
Returned(i) == i < idx \/ (i = idx /\ pc = "extend")

ErrorsOf(errs, name) ==
    LET about(e) == e.attribute = name IN SelectSeq(errs, about)

\* The errors validate_attribute returned for the i-th attribute.
Emitted(i) == IF i < idx THEN ErrorsOf(errors, oca[i].name) ELSE attribute_errors

TypeErrorTexts ==
    {"is not a string", "is not a number", "is not a boolean", "is not an array"}

TypeErrors(errs) ==
    LET isType(e) == e.what \in TypeErrorTexts IN SelectSeq(errs, isType)

EntryCodeErrors(errs) ==
    LET isCode(e) == e.what = "is not in entry codes" IN SelectSeq(errs, isCode)

\* validate_attribute is running for the i-th attribute, past the early returns.
InChecks(i) == i = idx /\ pc \in {"type", "entry_codes", "panicked"}

(***************************************************************************)
(* C1: for every bundle, also one without attributes, data that is no JSON *)
(* object makes validate_data and validator::validate return               *)
(* Err("Data is not an object"): no attribute is looked at, no error is    *)
(* collected and the result is never Ok.                                   *)
(***************************************************************************)
C1_NotAnObject ==
    (HasDocument /\ Document.t # "Object") =>
        /\ pc \in {"start", "parsed", "done"}
        /\ errors = <<>> /\ attribute_errors = <<>> /\ idx = 1
        /\ result.tag # "Ok"
        /\ pc = "done" => result = [tag |-> "Err", msg |-> "Data is not an object"]

C1_Witness ==
    /\ pc = "done"
    /\ entry = "validate_data"
    /\ data.t = "Null"
    /\ oca = <<>>
    /\ result.tag = "Err"

(***************************************************************************)
(* C2: in validator::validate a text that fails to parse yields an Err     *)
(* whose message differs from the Err of a text that parses to a value     *)
(* that is no object; neither is Ok, and the text is parsed before the     *)
(* value is asked whether it is an object.                                 *)
(***************************************************************************)
C2_ParseErrorDistinct ==
    entry = "validate" =>
        /\ ~data.wellformed =>
              /\ pc \in {"start", "done"}
              /\ d = None
              /\ pc = "done" =>
                    /\ result.tag = "Err"
                    /\ result.msg = "Failed to parse data: " \o data.error
                    /\ result.msg # "Data is not an object"
        /\ (data.wellformed /\ data.json.t # "Object" /\ pc = "done") =>
              /\ result = [tag |-> "Err", msg |-> "Data is not an object"]
              /\ d = [some |-> TRUE, v |-> data.json]

C2_Witness ==
    /\ entry = "validate"
    /\ ~data.wellformed
    /\ pc = "done"
    /\ result.tag = "Err"

(***************************************************************************)
(* C3: an attribute whose name is no key of the data gets exactly one      *)
(* error, "value is mandatory", if its conformance is exactly "M", and no  *)
(* error otherwise; its type and entry codes are never checked.            *)
(***************************************************************************)
C3_AbsentValue ==
    ObjectDocument =>
        \A i \in Attrs :
            ~IsPresent(i) =>
                /\ ~InChecks(i)
                /\ Returned(i) =>
                      IF oca[i].conformance = [some |-> TRUE, v |-> "M"]
                      THEN Emitted(i) = <<[attribute |-> oca[i].name, value |-> "",
                                           what |-> "value is mandatory"]>>
                      ELSE Emitted(i) = <<>>

C3_Witness ==
    /\ ObjectDocument
    /\ pc = "extend"
    /\ ~IsPresent(idx)
    /\ oca[idx].conformance = [some |-> TRUE, v |-> "M"]
    /\ oca[idx].entry_codes.some
    /\ Len(attribute_errors) = 1

(***************************************************************************)
(* C4: an attribute whose value is a JSON array or a JSON object gets no   *)
(* error, whatever its type, conformance and entry codes are.              *)
(***************************************************************************)
C4_ArrayObjectBypass ==
    ObjectDocument =>
        \A i \in Attrs :
            (IsPresent(i) /\ ValueOf(i).t \in {"Array", "Object"}) =>
                /\ ~InChecks(i)
                /\ Returned(i) => Emitted(i) = <<>>

C4_Witness ==
    /\ ObjectDocument
    /\ pc = "extend"
    /\ IsPresent(idx)
    /\ ValueOf(idx).t = "Object"
    /\ oca[idx].attribute_type = [some |-> TRUE, v |-> [tag |-> "Value", of |-> "Text"]]
    /\ oca[idx].entry_codes.some

(***************************************************************************)
(* The rules as the specification words them: when a scalar violates the   *)
(* declared type, and when it violates the entry codes.                    *)
(***************************************************************************)
TypeViolated(ty, v) ==
    /\ ty.some
    /\ \/ ty.v.tag = "Value" /\ ty.v.of \in {"Text", "DateTime", "Binary"} /\ v.t # "String"
       \/ ty.v.tag = "Value" /\ ty.v.of = "Numeric" /\ v.t # "Number"
       \/ ty.v.tag = "Value" /\ ty.v.of = "Boolean" /\ v.t # "Bool"
       \/ ty.v.tag = "Array" /\ v.t # "Array"

TypeErrorText(ty) ==
    IF ty.v.tag = "Array" THEN "is not an array"
    ELSE IF ty.v.of = "Numeric" THEN "is not a number"
    ELSE IF ty.v.of = "Boolean" THEN "is not a boolean"
    ELSE "is not a string"

InFlat(ec, v) ==
    v.t = "String" /\ \E k \in 1..Len(ec.v.codes) : ec.v.codes[k] = v.s

InSomeGroup(ec, v) ==
    /\ v.t = "String"
    /\ \E g \in 1..Len(ec.v.groups) :
          \E k \in 1..Len(ec.v.groups[g].codes) : ec.v.groups[g].codes[k] = v.s

IsFlat(ec) == ec.some /\ ec.v.tag = "Array"

IsGrouped(ec) == ec.some /\ ec.v.tag = "Object"

CodesViolated(ec, v) ==
    \/ IsFlat(ec) /\ ~InFlat(ec, v)
    \/ IsGrouped(ec) /\ ~InSomeGroup(ec, v)

(***************************************************************************)
(* C5: for a present scalar the type check pushes exactly one type error   *)
(* iff the type is Text, DateTime or Binary and the value is no string,    *)
(* Numeric and the value is no number, Boolean and the value is no         *)
(* boolean, or an array type; it pushes none when the type is absent, Null *)
(* or a reference.                                                         *)
(***************************************************************************)
C5_TypeCheck ==
    ObjectDocument =>
        \A i \in Attrs :
            (IsPresent(i) /\ IsScalar(ValueOf(i))) =>
                LET ty == oca[i].attribute_type
                    expected ==
                        IF TypeViolated(ty, ValueOf(i))
                        THEN <<[attribute |-> oca[i].name,
                                value |-> IF ValueOf(i).t = "String"
                                          THEN "\"" \o ValueOf(i).s \o "\""
                                          ELSE ValueOf(i).s,
                                what |-> TypeErrorText(ty)]>>
                        ELSE <<>>
                IN  /\ (i = idx /\ pc \in {"entry_codes", "panicked"}) =>
                            attribute_errors = expected
                    /\ Returned(i) => TypeErrors(Emitted(i)) = expected

C5_Witness ==
    /\ ObjectDocument
    /\ pc = "entry_codes"
    /\ oca[idx].attribute_type = [some |-> TRUE, v |-> [tag |-> "Value", of |-> "DateTime"]]
    /\ ValueOf(idx).t = "Number"
    /\ Len(attribute_errors) = 1

(***************************************************************************)
(* C6: with a flat entry-code list and a present string, exactly one       *)
(* "is not in entry codes" error is pushed iff the string is no element of *)
(* the list, none iff it is; without entry codes, or with the reference    *)
(* variant, there is never an entry-code error.                            *)
(***************************************************************************)
C6_FlatEntryCodes ==
    ObjectDocument =>
        \A i \in Attrs :
            LET ec == oca[i].entry_codes IN
            /\ (IsFlat(ec) /\ IsPresent(i) /\ ValueOf(i).t = "String") =>
                  /\ ~(i = idx /\ pc = "panicked")
                  /\ Returned(i) =>
                        Len(EntryCodeErrors(Emitted(i))) =
                            IF InFlat(ec, ValueOf(i)) THEN 0 ELSE 1
            /\ (~ec.some \/ ec.v.tag = "Sai") =>
                  /\ ~(i = idx /\ pc = "panicked")
                  /\ Returned(i) => EntryCodeErrors(Emitted(i)) = <<>>

C6_Witness ==
    /\ ObjectDocument
    /\ pc = "extend"
    /\ IsFlat(oca[idx].entry_codes)
    /\ Len(oca[idx].entry_codes.v.codes) = 2
    /\ IsPresent(idx)
    /\ ValueOf(idx) = [t |-> "String", s |-> "c"]
    /\ Len(EntryCodeErrors(attribute_errors)) = 1

(***************************************************************************)
(* C7: with grouped entry codes and a present string, no entry-code error  *)
(* is pushed iff the string is in the list of at least one group, whatever *)
(* the group is called; otherwise exactly one is pushed, also when the     *)
(* mapping has no group.                                                   *)
(***************************************************************************)
C7_GroupedEntryCodes ==
    ObjectDocument =>
        \A i \in Attrs :
            LET ec == oca[i].entry_codes IN
            (IsGrouped(ec) /\ IsPresent(i) /\ ValueOf(i).t = "String") =>
                /\ ~(i = idx /\ pc = "panicked")
                /\ Returned(i) =>
                      Len(EntryCodeErrors(Emitted(i))) =
                          IF InSomeGroup(ec, ValueOf(i)) THEN 0 ELSE 1

C7_Witness ==
    /\ ObjectDocument
    /\ pc = "extend"
    /\ IsGrouped(oca[idx].entry_codes)
    /\ Len(oca[idx].entry_codes.v.groups) = 2
    /\ IsPresent(idx)
    /\ ValueOf(idx) = [t |-> "String", s |-> "c"]
    /\ EntryCodeErrors(attribute_errors) = <<>>

(***************************************************************************)
(* C8: a present number, boolean or null for an attribute with flat or     *)
(* grouped entry codes does not abort the call: the call returns a result, *)
(* the value is reported as an error of that attribute and the other       *)
(* attributes are still validated.                                         *)
(***************************************************************************)
C8_NoAbort ==
    ObjectDocument =>
        /\ pc # "panicked"
        /\ \A i \in Attrs :
              (/\ IsPresent(i)
               /\ ValueOf(i).t \in {"Number", "Bool", "Null"}
               /\ (IsFlat(oca[i].entry_codes) \/ IsGrouped(oca[i].entry_codes))
               /\ pc = "done") =>
                    /\ result.tag = "Ok"
                    /\ EntryCodeErrors(Emitted(i)) # <<>>

(***************************************************************************)
(* C9: soundness.  If validate_data returns Valid, every attribute with    *)
(* conformance "M" is a key of the data, and every attribute with a scalar *)
(* value has a value that matches its type and is in its flat or grouped   *)
(* entry codes.                                                            *)
(***************************************************************************)
C9_Soundness ==
    (entry = "validate_data" /\ pc = "done"
        /\ result = [tag |-> "Ok", status |-> "Valid"]) =>
        \A i \in Attrs :
            /\ oca[i].conformance = [some |-> TRUE, v |-> "M"] => IsPresent(i)
            /\ (IsPresent(i) /\ IsScalar(ValueOf(i))) =>
                  /\ ~TypeViolated(oca[i].attribute_type, ValueOf(i))
                  /\ ~CodesViolated(oca[i].entry_codes, ValueOf(i))

C9_Witness ==
    /\ entry = "validate_data"
    /\ pc = "done"
    /\ result = [tag |-> "Ok", status |-> "Valid"]
    /\ Len(oca) = 2
    /\ \A i \in Attrs :
          /\ oca[i].conformance = [some |-> TRUE, v |-> "M"]
          /\ IsFlat(oca[i].entry_codes)
          /\ IsPresent(i)
          /\ IsScalar(ValueOf(i))

(***************************************************************************)
(* C10: the errors a call returns are, attribute by attribute, the         *)
(* violated rules (missing mandatory value, type, entry codes): no         *)
(* attribute's error suppresses the check of another, and a scalar that    *)
(* violates both its type and its entry codes gives two errors, the type   *)
(* error first.                                                            *)
(***************************************************************************)
ResultErrors ==
    IF result.tag # "Ok" THEN <<>>
    ELSE IF entry = "validate_data" /\ result.status = "Valid" THEN <<>>
    ELSE result.errors

\* The texts of the errors the rules ask for, in order, for the i-th attribute.
Violations(i) ==
    IF ~IsPresent(i)
    THEN IF oca[i].conformance = [some |-> TRUE, v |-> "M"]
         THEN <<"value is mandatory">> ELSE <<>>
    ELSE IF ~IsScalar(ValueOf(i)) THEN <<>>
    ELSE (IF TypeViolated(oca[i].attribute_type, ValueOf(i))
          THEN <<TypeErrorText(oca[i].attribute_type)>> ELSE <<>>)
         \o (IF CodesViolated(oca[i].entry_codes, ValueOf(i))
             THEN <<"is not in entry codes">> ELSE <<>>)

WhatOf(errs) == [k \in 1..Len(errs) |-> errs[k].what]

C10_ErrorCount ==
    (ObjectDocument /\ pc \in {"done", "panicked"}) =>
        /\ result.tag = "Ok"
        /\ \A k \in 1..Len(ResultErrors) :
              \E i \in Attrs : ResultErrors[k].attribute = oca[i].name
        /\ \A i \in Attrs :
              WhatOf(ErrorsOf(ResultErrors, oca[i].name)) = Violations(i)

\* The same, for the calls that return.
C10_ErrorCountOfReturn ==
    (ObjectDocument /\ pc = "done") =>
        /\ result.tag = "Ok"
        /\ \A k \in 1..Len(ResultErrors) :
              \E i \in Attrs : ResultErrors[k].attribute = oca[i].name
        /\ \A i \in Attrs :
              WhatOf(ErrorsOf(ResultErrors, oca[i].name)) = Violations(i)

(***************************************************************************)
(* C12: validate_data returns Ok(Valid) iff the errors collected over all  *)
(* attributes are empty, and otherwise Ok(Invalid(errors)) with exactly    *)
(* the collected errors; Invalid never carries an empty list.              *)
(***************************************************************************)
C12_StatusOfErrors ==
    /\ (entry = "validate_data" /\ pc = "done" /\ ObjectDocument) =>
          /\ idx = Len(oca) + 1
          /\ IF errors = <<>>
             THEN result = [tag |-> "Ok", status |-> "Valid"]
             ELSE result = [tag |-> "Ok", status |-> "Invalid", errors |-> errors]
    /\ (entry = "validate_data" /\ result.tag = "Ok" /\ result.status = "Invalid") =>
          result.errors # <<>>

C12_Witness ==
    /\ entry = "validate_data"
    /\ pc = "done"
    /\ result.tag = "Ok"
    /\ result.status = "Invalid"
    /\ Len(result.errors) = 2
    /\ Len(oca) = 2

(***************************************************************************)
(* C14, as claimed: no validation call produces an "is not an array"       *)
(* error.                                                                  *)
(***************************************************************************)
C14_NoArrayError ==
    /\ \A k \in 1..Len(errors) : errors[k].what # "is not an array"
    /\ \A k \in 1..Len(attribute_errors) : attribute_errors[k].what # "is not an array"

(***************************************************************************)
(* C14, amended: arrays and objects return before the type check, so the   *)
(* array branch runs only for scalars, and then it always pushes its       *)
(* error: an attribute gets "is not an array" exactly when its type is an  *)
(* array type and its value is a present scalar.                           *)
(***************************************************************************)
HasArrayError(errs) == \E k \in 1..Len(errs) : errs[k].what = "is not an array"

C14_ArrayBranch ==
    ObjectDocument =>
        \A i \in Attrs :
            LET ty == oca[i].attribute_type
                scalarForArray ==
                    /\ ty.some /\ ty.v.tag = "Array"
                    /\ IsPresent(i) /\ IsScalar(ValueOf(i))
            IN  /\ (i = idx /\ pc \in {"entry_codes", "panicked"}) =>
                        (HasArrayError(attribute_errors) <=> scalarForArray)
                /\ Returned(i) => (HasArrayError(Emitted(i)) <=> scalarForArray)
                /\ (InChecks(i) /\ ty.some /\ ty.v.tag = "Array") =>
                        ValueOf(i).t # "Array"

C14_Witness ==
    /\ ObjectDocument
    /\ pc = "extend"
    /\ oca[idx].attribute_type.some
    /\ oca[idx].attribute_type.v.tag = "Array"
    /\ IsPresent(idx)
    /\ ValueOf(idx).t = "String"
    /\ HasArrayError(attribute_errors)

(***************************************************************************)
(* C13: the cache of info() is pure memoization: after any creations,      *)
(* moves and drops of bundles and calls of info(), also with a new bundle  *)
(* at the address of an earlier one whose info is still held, info()       *)
(* returns an OCABundleInfo equal to OCABundleInfo::new of the bundle it   *)
(* was called on.                                                          *)
(***************************************************************************)
C13_InfoIsNew ==
    \A t \in Threads :
        threads[t].pc = "returned" =>
            LET got == heap[threads[t].local].info
                bundle == bundles[threads[t].self].v
            IN  got = OCABundleInfo_new(bundle)

(***************************************************************************)
(* C16: concurrent calls of info() look up, construct and insert under the *)
(* INFO_CACHE mutex, one at a time: while an Arc made for an address is    *)
(* alive, every call on that address returns that Arc and no second        *)
(* OCABundleInfo is made; one is made only when the key is missing or its  *)
(* Weak cannot be upgraded.                                                *)
(***************************************************************************)
InCriticalSection == {t \in Threads : threads[t].pc \in {"lookup", "new", "insert"}}

AliveFor(a) == {id \in 1..Len(heap) : heap[id].key = a /\ strong_count(id) > 0}

C16_SharedArc ==
    /\ Cardinality(InCriticalSection) <= 1
    /\ \A t \in InCriticalSection : mutex = t
    /\ \A a \in Addresses : Cardinality(AliveFor(a)) <= 1
    /\ \A t \in Threads :
          /\ threads[t].pc \in {"new", "insert"} =>
                \/ cache[threads[t].self] = 0
                \/ strong_count(cache[threads[t].self]) = 0
          /\ threads[t].pc = "returned" =>
                /\ threads[t].local = cache[threads[t].self]
                /\ AliveFor(threads[t].self) = {threads[t].local}

C16_Witness ==
    /\ threads["t1"].pc = "returned"
    /\ threads["t2"].pc = "returned"
    /\ threads["t1"].self = threads["t2"].self
    /\ threads["t1"].local = threads["t2"].local
    /\ Len(heap) = 1

(***************************************************************************)
(* C11: idempotence.  A second call of the same entry point with the same  *)
(* bundle and data ends as the first did: the same Ok or Err, the same     *)
(* status, the same error messages in the same order.                      *)
(***************************************************************************)
C11_Idempotent ==
    (call = 2 /\ first.entry = entry /\ pc \in {"done", "panicked"}) =>
        /\ first.pc = pc
        /\ first.result = result

(***************************************************************************)
(* C15: the entry points agree.  For a text that parses to the value d,    *)
(* validate returns Err iff validate_data does on d, Ok of the empty list  *)
(* iff validate_data returns Valid, and Ok of a non-empty list iff         *)
(* validate_data returns Invalid with the same errors (each error as often *)
(* in the one list as in the other).                                       *)
(***************************************************************************)
CountIn(errs, e) == Cardinality({k \in 1..Len(errs) : errs[k] = e})

SameErrors(a, b) ==
    /\ Len(a) = Len(b)
    /\ \A k \in 1..Len(a) : CountIn(a, a[k]) = CountIn(b, a[k])

C15_EntryPointsAgree ==
    (call = 2 /\ first.entry # entry /\ pc \in {"done", "panicked"}) =>
        LET here == [pc |-> pc, result |-> result]
            vd == IF entry = "validate_data" THEN here ELSE first
            v == IF entry = "validate" THEN here ELSE first
        IN  /\ v.pc = vd.pc
            /\ v.result.tag = vd.result.tag
            /\ v.result.tag = "Err" <=> vd.result.tag = "Err"
            /\ (v.result.tag = "Ok" /\ v.result.errors = <<>>)
                  <=> vd.result = [tag |-> "Ok", status |-> "Valid"]
            /\ (v.result.tag = "Ok" /\ v.result.errors # <<>>)
                  <=> (vd.result.tag = "Ok" /\ vd.result.status = "Invalid")
            /\ (vd.result.tag = "Ok" /\ vd.result.status = "Invalid") =>
                  SameErrors(v.result.errors, vd.result.errors)

C15_Witness ==
    /\ call = 2
    /\ first.entry = "validate_data"
    /\ entry = "validate"
    /\ pc = "done"
    /\ first.pc = "done"
    /\ first.result.tag = "Ok"
    /\ first.result.status = "Invalid"
    /\ Len(result.errors) = 2
    /\ result.errors # first.result.errors

====
